---- MODULE Spec2Model ----
(***************************************************************************)
(* The approval flow of the wallet demo: App (the React component with its *)
(* hooks, onHandleApprove and requestGasParams) and the wagmi              *)
(* configuration.                                                          *)
(*                                                                         *)
(* The values the hooks hand to the component (account.address,            *)
(* publicClient, walletClient) and the form state are the environment; a   *)
(* click on Approve runs onHandleApprove with the values of the latest     *)
(* render.  The handler runs synchronously up to its first await, and      *)
(* each later step runs when the awaited network call settles, so several  *)
(* invocations can be suspended at the same time.                          *)
(***************************************************************************)
EXTENDS Integers, Sequences, FiniteSets, Bags, TLC

(***************************************************************************)
(* Bounds.                                                                 *)
(***************************************************************************)
\* Number of invocations of onHandleApprove suspended at a network call at
\* the same time.
MaxFlows == 2

(***************************************************************************)
(* Values.                                                                 *)
(***************************************************************************)
Undefined == "undefined"
Null == "null"

\* JavaScript truthiness of the strings the flow tests with `!`.
Falsy(v) == v = Undefined \/ v = Null \/ v = ""

\* config.chains: mainnet, sepolia, arbitrum, gnosis, aurora.
Chains == {1, 11155111, 42161, 100, 1313161554}

\* Every configured chain has a transport, so the public client of the
\* active chain always exists.
Transports == [c \in Chains |-> "http"]

UNISWAP_ADDRESSES ==
  [c \in {42161, 100, 1313161554} |->
     CASE c = 42161 -> "0x68b3465833fb72A70ecDF485E0e4C7bD8665Fc45"
       [] c = 100 -> "0x1b02dA8Cb0d097eB8D57A175b88c7D8b47997506"
       [] c = 1313161554 -> "0x2CB45Edb4517d5947aFdE3BEAbF95A582506858B"]

\* Accounts the injected wallet can expose, and what the user can type in
\* the token field.
Accounts == {"0xA1", "0xA2"}
TokenInputs == {"", "0xAAAA"}

\* usePublicClient(): the client of a chain, or undefined.
NoPublicClient == [present |-> FALSE, chainId |-> 0]
PublicClientOf(c) == [present |-> TRUE, chainId |-> c]

(***************************************************************************)
(* Unsigned 256-bit amounts, as sequences of hexadecimal digits, most      *)
(* significant first.                                                      *)
(***************************************************************************)
HexDigit(ch) ==
  CASE ch = "0" -> 0 [] ch = "1" -> 1 [] ch = "2" -> 2 [] ch = "3" -> 3
    [] ch = "4" -> 4 [] ch = "5" -> 5 [] ch = "6" -> 6 [] ch = "7" -> 7
    [] ch = "8" -> 8 [] ch = "9" -> 9 [] ch = "a" -> 10 [] ch = "b" -> 11
    [] ch = "c" -> 12 [] ch = "d" -> 13 [] ch = "e" -> 14 [] ch = "f" -> 15

\* The digits of the literal after 0x.
MaxAmountLiteral ==
  << "f","f","f","f","f","f","f","f","f","f","f","f","f","f","f","f",
     "f","f","f","f","f","f","f","f","f","f","f","f","f","f","f","f",
     "f","f","f","f","f","f","f","f","f","f","f","f","f","f","f","f",
     "f","f","f","f","f","f","f","f","f","f","f","f","f","f","f","f" >>

\* A number has no leading zeros (zero is the empty sequence).
RECURSIVE Normalize(_)
Normalize(d) ==
  IF d # << >> /\ Head(d) = 0 THEN Normalize(Tail(d)) ELSE d

\* BigInt('0x...') of a sequence of hexadecimal digit characters.
BigIntHex(lit) == Normalize([i \in 1..Len(lit) |-> HexDigit(lit[i])])

\* The literal with its last digit dropped.
MaxAmountTruncated ==
  BigIntHex(SubSeq(MaxAmountLiteral, 1, Len(MaxAmountLiteral) - 1))

maxAmount == BigIntHex(MaxAmountLiteral)

(***************************************************************************)
(* Thrown values and messages.                                             *)
(***************************************************************************)
\* A value a rejected promise or a throw statement carries: an Error
\* (isError), or anything else; hasMessage says that its message property
\* is a string.
Err(m) == [isError |-> TRUE, hasMessage |-> TRUE, message |-> m]
NonErrorObject(m) == [isError |-> FALSE, hasMessage |-> TRUE, message |-> m]
NonErrorValue == [isError |-> FALSE, hasMessage |-> FALSE, message |-> Undefined]
NoThrow == [isError |-> FALSE, hasMessage |-> FALSE, message |-> Null]

MsgUnsupported == "Chain does not support EIP-1559 fees."
MsgHttp == "HTTP request failed."
MsgHttpDetails == "HTTP request failed. Details: limit 1559"
MsgReverted == "execution reverted"
MsgRejected == "User rejected the request."
MsgTimeout == "The request took too long to respond."
MsgTypeError == "Cannot read properties of undefined (reading 'includes')"

\* The characters of the messages the fee estimation can fail with.
Chars(m) ==
  CASE m = MsgUnsupported ->
         <<"C", "h", "a", "i", "n", " ", "d", "o", "e", "s", " ", "n", "o",
           "t", " ", "s", "u", "p", "p", "o", "r", "t", " ", "E", "I", "P",
           "-", "1", "5", "5", "9", " ", "f", "e", "e", "s", ".">>
    [] m = MsgHttp ->
         <<"H", "T", "T", "P", " ", "r", "e", "q", "u", "e", "s", "t", " ",
           "f", "a", "i", "l", "e", "d", ".">>
    [] m = MsgHttpDetails ->
         <<"H", "T", "T", "P", " ", "r", "e", "q", "u", "e", "s", "t", " ",
           "f", "a", "i", "l", "e", "d", ".", " ", "D", "e", "t", "a", "i",
           "l", "s", ":", " ", "l", "i", "m", "i", "t", " ", "1", "5", "5",
           "9">>

\* String.prototype.includes.
Includes(s, pat) ==
  \E i \in 1..(Len(s) - Len(pat) + 1) : SubSeq(s, i, i + Len(pat) - 1) = pat

Includes1559(m) == Includes(Chars(m), <<"1", "5", "5", "9">>)

(***************************************************************************)
(* State.                                                                  *)
(***************************************************************************)
VARIABLES
  address,        \* account.address
  publicClient,   \* usePublicClient()
  walletClient,   \* useWalletClient().data is defined
  tokenAddress,   \* useState('')
  uniswapAddress, \* the memoised router address of the latest render
  txHash,         \* useState(null)
  errorMessage,   \* useState(null)
  flows           \* bag of the invocations suspended at a network call

vars == << address, publicClient, walletClient, tokenAddress, uniswapAddress,
           txHash, errorMessage, flows >>

env == << address, publicClient, walletClient, tokenAddress, uniswapAddress >>

(***************************************************************************)
(* The component's render.                                                 *)
(***************************************************************************)
\* useMemo(() => UNISWAP_ADDRESSES[publicClient.chain?.id || 0]).
\* A lookup that falls back to the first entry of the table.
UniswapAddressOrFirst(pc) ==
  IF pc.chainId \in DOMAIN UNISWAP_ADDRESSES
  THEN UNISWAP_ADDRESSES[pc.chainId] ELSE UNISWAP_ADDRESSES[42161]

\* A chain id that is missing or 0 reads as 0, and a key the table lacks
\* reads as undefined.
UniswapAddressOf(pc) ==
  LET id == IF pc.chainId = 0 THEN 0 ELSE pc.chainId
  IN  IF id \in DOMAIN UNISWAP_ADDRESSES THEN UNISWAP_ADDRESSES[id]
      ELSE Undefined

(***************************************************************************)
(* What the chain transport and the wallet can answer.                     *)
(***************************************************************************)
\* The configured chains whose blocks carry a base fee.
FeeMarketChains == {1, 11155111, 42161, 100}

\* publicClient.estimateContractGas(params) resolves with the gas the call
\* needs.
EstimateContractGasResults(params) ==
  {IF params.account = "0xA1" THEN 46000 ELSE 52000}
Eip1559Fees == [maxFeePerGas |-> 30, maxPriorityFeePerGas |-> 2]
LegacyFees == [gasPrice |-> 25]
GasPrices == {25}
Hashes == {"0xH1", "0xH2"}

\* publicClient.estimateContractGas rejects.
EstimateContractGasErrors == {Err(MsgReverted)}

\* publicClient.estimateFeesPerGas of a chain resolves with ...
EstimateFeesPerGasResults(chainId) ==
  IF chainId \in FeeMarketChains THEN {Eip1559Fees} ELSE {LegacyFees}

\* ... or rejects: a chain without a fee market is reported with
\* MsgUnsupported; the transport can fail on every chain, with a text the
\* server and the request decide.
EstimateFeesPerGasErrors(chainId) ==
  {Err(MsgHttp), Err(MsgHttpDetails), NonErrorObject(MsgHttp), NonErrorValue}
    \cup (IF chainId \in FeeMarketChains THEN {} ELSE {Err(MsgUnsupported)})

\* publicClient.getGasPrice rejects.
GetGasPriceErrors == {Err(MsgTimeout)}

\* walletClient.writeContract rejects.
WriteContractErrors == {Err(MsgRejected), NonErrorObject(MsgRejected)}

(***************************************************************************)
(* One invocation of onHandleApprove.                                      *)
(***************************************************************************)
NoParams == [abi |-> "", account |-> Undefined, functionName |-> "",
             address |-> "", args |-> << >>]
NoGasParams == [feesPerGas |-> << >>, is1559 |-> FALSE]
NoRequest == [method |-> "", args |-> << >>]

\* The closure values of the invocation (address, publicClient,
\* walletClient, tokenAddress, uniswapAddress), its locals (params,
\* gasLimit, gp), the network call it awaits (request) and the calls it has
\* made so far (calls).
FlowOf(a, pc, wc, t, ua) ==
  [pc |-> "validating", address |-> a, publicClient |-> pc,
   walletClient |-> wc, tokenAddress |-> t, uniswapAddress |-> ua,
   params |-> NoParams, gasLimit |-> 0, gp |-> NoGasParams,
   request |-> NoRequest, calls |-> << >>]

IdleFlow == FlowOf(Undefined, NoPublicClient, FALSE, "", Undefined)

\* An awaited call: the flow is suspended at `method`.
Await(f, method, args) ==
  [f EXCEPT !.pc = method,
            !.request = [method |-> method, args |-> args],
            !.calls = Append(@, method)]

\* The checks without the one of the token address.
PrecheckNoToken(a, pc, ua, t) ==
  IF Falsy(a) \/ ~pc.present THEN Err("Wallet not Connected")
  ELSE IF Falsy(ua) THEN Err("Target contract is required")
  ELSE NoThrow

\* The checks without the one of the account's address.
PrecheckNoAccount(a, pc, ua, t) ==
  IF ~pc.present THEN Err("Wallet not Connected")
  ELSE IF Falsy(ua) THEN Err("Target contract is required")
  ELSE IF Falsy(t) THEN Err("Token is required")
  ELSE NoThrow

\* The checks with the token address tested before the router address.
PrecheckTokenFirst(a, pc, ua, t) ==
  IF Falsy(a) \/ ~pc.present THEN Err("Wallet not Connected")
  ELSE IF Falsy(t) THEN Err("Token is required")
  ELSE IF Falsy(ua) THEN Err("Target contract is required")
  ELSE NoThrow

\* The precondition checks: the value thrown, or NoThrow.
Precheck(a, pc, ua, t) ==
  IF Falsy(a) \/ ~pc.present THEN Err("Wallet not Connected")
  ELSE IF Falsy(ua) THEN Err("Target contract is required")
  ELSE IF Falsy(t) THEN Err("Token is required")
  ELSE NoThrow

BuildParams(a, t, ua) ==
  [abi |-> "APPROVE_ABI", account |-> a, functionName |-> "approve",
   address |-> t, args |-> << ua, maxAmount >>]

\* Object spread: { ...a, ...b }.
Spread(a, b) ==
  [k \in (DOMAIN a) \cup (DOMAIN b) |-> IF k \in DOMAIN b THEN b[k] ELSE a[k]]

\* A submission that leaves the gas limit to the wallet.
WriteContractArgsNoGas(params, gp, gasLimit) == Spread(params, gp.feesPerGas)

\* The argument of walletClient.writeContract.
WriteContractArgs(params, gp, gasLimit) ==
  Spread(Spread(params, gp.feesPerGas), [gas |-> gasLimit])

\* The catch clause of onHandleApprove: the message shown.
CatchMessage(thrown) ==
  IF thrown.isError THEN thrown.message ELSE "Unknown error"

\* The catch clause of onHandleApprove.
Catch(thrown) == errorMessage' = CatchMessage(thrown)

\* requestGasParams after estimateFeesPerGas resolved.
GasParamsOfFees(feesPerGas) ==
  [feesPerGas |-> feesPerGas, is1559 |-> "maxFeePerGas" \in DOMAIN feesPerGas]

\* A fallback that reports the fee market.
GasParamsOfGasPriceAs1559(gasPrice) ==
  [feesPerGas |-> [gasPrice |-> gasPrice], is1559 |-> TRUE]

\* requestGasParams after getGasPrice resolved.
GasParamsOfGasPrice(gasPrice) ==
  [feesPerGas |-> [gasPrice |-> gasPrice], is1559 |-> FALSE]

\* A catch clause that falls back whatever the message says.
CatchFeesAnyMessage(error) ==
  IF ~error.hasMessage THEN [fallback |-> FALSE, thrown |-> Err(MsgTypeError)]
  ELSE [fallback |-> TRUE, thrown |-> NoThrow]

\* The catch clause of requestGasParams: fall back to getGasPrice, or
\* throw.  Reading .includes of a missing message is a TypeError.
CatchFees(error) ==
  IF ~error.hasMessage THEN [fallback |-> FALSE, thrown |-> Err(MsgTypeError)]
  ELSE IF Includes1559(error.message)
  THEN [fallback |-> TRUE, thrown |-> NoThrow]
  ELSE [fallback |-> FALSE, thrown |-> error]

Suspended == BagToSet(flows)
Resume(f, g) == flows' = (flows (-) SetToBag({f})) (+) SetToBag({g})

\* An invocation that stays suspended after its outcome.
FinishNever(f) == UNCHANGED flows

Finish(f) == flows' = flows (-) SetToBag({f})

(***************************************************************************)
(* The hooks and the form.                                                 *)
(***************************************************************************)
\* connect({ connector }) succeeds: the account's address appears.
Connect(a) ==
  /\ address = Undefined
  /\ address' = a
  /\ UNCHANGED << publicClient, walletClient, tokenAddress, uniswapAddress,
                  txHash, errorMessage, flows >>

\* disconnect().
Disconnect ==
  /\ address # Undefined
  /\ address' = Undefined
  /\ UNCHANGED << publicClient, walletClient, tokenAddress, uniswapAddress,
                  txHash, errorMessage, flows >>

\* The wallet switches to another of its accounts.
AccountsChanged(a) ==
  /\ address # Undefined
  /\ address # a
  /\ address' = a
  /\ UNCHANGED << publicClient, walletClient, tokenAddress, uniswapAddress,
                  txHash, errorMessage, flows >>

\* useWalletClient() gets or loses its client.
WalletClientChanged ==
  /\ walletClient' = ~walletClient
  /\ UNCHANGED << address, publicClient, tokenAddress, uniswapAddress,
                  txHash, errorMessage, flows >>

\* switchChain({ chainId }): the public client of the new chain, and the
\* render that follows recomputes the memoised router address.
SwitchChain(c) ==
  /\ publicClient # PublicClientOf(c)
  /\ publicClient' = PublicClientOf(c)
  /\ uniswapAddress' = UniswapAddressOf(PublicClientOf(c))
  /\ UNCHANGED << address, walletClient, tokenAddress, txHash, errorMessage,
                  flows >>

\* setTokenAddress(e.target.value).
SetTokenAddress(t) ==
  /\ tokenAddress # t
  /\ tokenAddress' = t
  /\ UNCHANGED << address, publicClient, walletClient, uniswapAddress,
                  txHash, errorMessage, flows >>

(***************************************************************************)
(* onHandleApprove, one action for each stretch between two awaits.        *)
(***************************************************************************)
\* The click: clears both banners, checks the preconditions and either
\* fails at once or awaits estimateContractGas(params).
onHandleApprove ==
  LET f == FlowOf(address, publicClient, walletClient, tokenAddress,
                  uniswapAddress)
      thrown == Precheck(f.address, f.publicClient, f.uniswapAddress,
                         f.tokenAddress)
      params == BuildParams(f.address, f.tokenAddress, f.uniswapAddress)
  IN  /\ txHash' = Null
      /\ IF thrown # NoThrow
         THEN /\ Catch(thrown)
              /\ UNCHANGED flows
         ELSE /\ BagCardinality(flows) < MaxFlows
              /\ errorMessage' = Null
              /\ flows' = flows (+) SetToBag(
                   {Await([f EXCEPT !.params = params],
                          "estimateContractGas", params)})
      /\ UNCHANGED env

\* estimateContractGas resolved, and the signing client is not looked at.
EstimateContractGasReturnsUnchecked(f, gasLimit) ==
  LET g == [f EXCEPT !.gasLimit = gasLimit]
  IN  /\ f.pc = "estimateContractGas"
      /\ IF ~g.publicClient.present
         THEN /\ Catch(Err("Public client is required"))
              /\ Finish(f)
         ELSE /\ Resume(f, Await(g, "estimateFeesPerGas", << >>))
              /\ UNCHANGED errorMessage
      /\ UNCHANGED << env, txHash >>

\* estimateContractGas resolved: the signing client is required, then
\* requestGasParams awaits estimateFeesPerGas.
EstimateContractGasReturns(f, gasLimit) ==
  LET g == [f EXCEPT !.gasLimit = gasLimit]
  IN  /\ f.pc = "estimateContractGas"
      /\ IF ~g.walletClient
         THEN /\ Catch(Err("Wallet client not available"))
              /\ Finish(f)
         ELSE IF ~g.publicClient.present
         THEN /\ Catch(Err("Public client is required"))
              /\ Finish(f)
         ELSE /\ Resume(f, Await(g, "estimateFeesPerGas", << >>))
              /\ UNCHANGED errorMessage
      /\ UNCHANGED << env, txHash >>

\* A rejected call that is made again.
RejectedAndRetried(f, method, thrown) ==
  /\ f.pc = method
  /\ Resume(f, Await(f, method, f.request.args))
  /\ UNCHANGED << env, txHash, errorMessage >>

\* A rejected call whose error reaches the catch clause of onHandleApprove.
Rejected(f, method, thrown) ==
  /\ f.pc = method
  /\ Catch(thrown)
  /\ Finish(f)
  /\ UNCHANGED << env, txHash >>

EstimateContractGasFails(f, thrown) ==
  Rejected(f, "estimateContractGas", thrown)

\* A submission that does not wait for the quote.
SubmitUnquoted(f, gp) ==
  Await(f, "writeContract", WriteContractArgs(f.params, NoGasParams, f.gasLimit))

\* The submission: walletClient.writeContract({...params, ...gp.feesPerGas,
\* gas: gasLimit}).
Submit(f, gp) ==
  Await([f EXCEPT !.gp = gp], "writeContract",
        WriteContractArgs(f.params, gp, f.gasLimit))

\* estimateFeesPerGas resolved: requestGasParams returns and the
\* transaction is submitted.
EstimateFeesPerGasReturns(f, feesPerGas) ==
  /\ f.pc = "estimateFeesPerGas"
  /\ Resume(f, Submit(f, GasParamsOfFees(feesPerGas)))
  /\ UNCHANGED << env, txHash, errorMessage >>

\* estimateFeesPerGas rejected: the catch clause of requestGasParams.
EstimateFeesPerGasFails(f, error) ==
  LET c == CatchFees(error)
  IN  /\ f.pc = "estimateFeesPerGas"
      /\ IF c.fallback
         THEN /\ Resume(f, Await(f, "getGasPrice", << >>))
              /\ UNCHANGED errorMessage
         ELSE /\ Catch(c.thrown)
              /\ Finish(f)
      /\ UNCHANGED << env, txHash >>

GetGasPriceReturns(f, gasPrice) ==
  /\ f.pc = "getGasPrice"
  /\ Resume(f, Submit(f, GasParamsOfGasPrice(gasPrice)))
  /\ UNCHANGED << env, txHash, errorMessage >>

GetGasPriceFails(f, thrown) == Rejected(f, "getGasPrice", thrown)

\* writeContract resolved: setTxHash(hash).
WriteContractReturns(f, hash) ==
  /\ f.pc = "writeContract"
  /\ txHash' = hash
  /\ Finish(f)
  /\ UNCHANGED << env, errorMessage >>

WriteContractFails(f, thrown) == Rejected(f, "writeContract", thrown)

(***************************************************************************)
(* The specification.                                                      *)
(***************************************************************************)
Init ==
  /\ address = Undefined
  /\ publicClient = PublicClientOf(1)
  /\ walletClient = FALSE
  /\ tokenAddress = ""
  /\ uniswapAddress = UniswapAddressOf(PublicClientOf(1))
  /\ txHash = Null
  /\ errorMessage = Null
  /\ flows = EmptyBag

Next ==
  \/ \E a \in Accounts : Connect(a)
  \/ Disconnect
  \/ \E a \in Accounts : AccountsChanged(a)
  \/ WalletClientChanged
  \/ \E c \in Chains : SwitchChain(c)
  \/ \E t \in TokenInputs : SetTokenAddress(t)
  \/ onHandleApprove
  \/ \E f \in Suspended :
       \E g \in EstimateContractGasResults(f.params) :
         EstimateContractGasReturns(f, g)
  \/ \E f \in Suspended, e \in EstimateContractGasErrors :
       EstimateContractGasFails(f, e)
  \/ \E f \in Suspended :
       \E r \in EstimateFeesPerGasResults(f.publicClient.chainId) :
         EstimateFeesPerGasReturns(f, r)
  \/ \E f \in Suspended :
       \E e \in EstimateFeesPerGasErrors(f.publicClient.chainId) :
         EstimateFeesPerGasFails(f, e)
  \/ \E f \in Suspended, p \in GasPrices : GetGasPriceReturns(f, p)
  \/ \E f \in Suspended, e \in GetGasPriceErrors : GetGasPriceFails(f, e)
  \/ \E f \in Suspended, h \in Hashes : WriteContractReturns(f, h)
  \/ \E f \in Suspended, e \in WriteContractErrors : WriteContractFails(f, e)

Spec == Init /\ [][Next]_vars

(***************************************************************************)
(* onHandleApprove applied to every combination of the values its closure  *)
(* can hold, a missing public client included (the handler tests for it),  *)
(* with any earlier result on display.  Without a public client the        *)
(* memoised router address cannot be computed, so it is left open.         *)
(***************************************************************************)
InitChecks ==
  /\ address \in Accounts \cup {Undefined}
  /\ publicClient \in {NoPublicClient} \cup {PublicClientOf(c) : c \in Chains}
  /\ uniswapAddress \in
       IF publicClient.present THEN {UniswapAddressOf(publicClient)}
       ELSE {Undefined} \cup {UNISWAP_ADDRESSES[c] : c \in DOMAIN UNISWAP_ADDRESSES}
  /\ walletClient \in BOOLEAN
  /\ tokenAddress \in TokenInputs
  /\ txHash \in {Null} \cup Hashes
  /\ errorMessage \in {Null, MsgRejected}
  /\ flows = EmptyBag

NextChecks == onHandleApprove

SpecChecks == InitChecks /\ [][NextChecks]_vars

\* Every external call eventually returns or fails: some pending call of
\* some suspended invocation settles.
Settle ==
  \E f \in Suspended :
    \/ \E g \in EstimateContractGasResults(f.params) :
         EstimateContractGasReturns(f, g)
    \/ \E e \in EstimateContractGasErrors : EstimateContractGasFails(f, e)
    \/ \E r \in EstimateFeesPerGasResults(f.publicClient.chainId) :
         EstimateFeesPerGasReturns(f, r)
    \/ \E e \in EstimateFeesPerGasErrors(f.publicClient.chainId) :
         EstimateFeesPerGasFails(f, e)
    \/ \E p \in GasPrices : GetGasPriceReturns(f, p)
    \/ \E e \in GetGasPriceErrors : GetGasPriceFails(f, e)
    \/ \E h \in Hashes : WriteContractReturns(f, h)
    \/ \E e \in WriteContractErrors : WriteContractFails(f, e)

\* The application with external calls that settle.
SpecLive == Init /\ [][Next]_vars /\ WF_vars(Settle)

(***************************************************************************)
(* Properties.                                                             *)
(***************************************************************************)
\* 16^64 = 2^256 and its predecessor, computed digit by digit.
TwoTo256 == << 1 >> \o [i \in 1..64 |-> 0]

\* d - 1 for a number d > 0: borrow from the last non-zero digit.
HexPred(d) ==
  LET k == CHOOSE i \in 1..Len(d) :
             d[i] # 0 /\ \A j \in (i + 1)..Len(d) : d[j] = 0
  IN  Normalize([i \in 1..Len(d) |->
                   IF i < k THEN d[i] ELSE IF i = k THEN d[k] - 1 ELSE 15])

MaxUint256 == HexPred(TwoTo256)

\* The calls that carry the approve call descriptor.
CarriesParams(f) == f.request.method \in {"estimateContractGas", "writeContract"}

\* C1: every transaction handed to writeContract, and every preceding
\* estimateContractGas call, carries the amount 2^256 - 1 as the second
\* argument of approve, whatever the token, chain, account and pricing path.
C1_MaxAllowance ==
  \A f \in Suspended :
    CarriesParams(f) =>
      /\ Len(f.request.args.args) = 2
      /\ f.request.args.args[2] = MaxUint256

\* Two submissions are pending, one priced by the fee market and one with a
\* legacy gas price.
C1_Witness ==
  \E f, g \in Suspended :
    /\ f.request.method = "writeContract"
    /\ g.request.method = "writeContract"
    /\ "maxFeePerGas" \in DOMAIN f.request.args
    /\ "gasPrice" \in DOMAIN g.request.args

\* C2: a submission is pending only for an invocation that read a
\* non-empty token address, a router address the table holds for the chain
\* active at the click, and a connected account.
C2_SubmissionNeedsAll ==
  \A f \in Suspended :
    f.request.method = "writeContract" =>
      /\ ~Falsy(f.tokenAddress)
      /\ f.request.args.address = f.tokenAddress
      /\ f.publicClient.chainId \in DOMAIN UNISWAP_ADDRESSES
      /\ f.request.args.args[1] = UNISWAP_ADDRESSES[f.publicClient.chainId]
      /\ f.address \in Accounts
      /\ f.request.args.account = f.address

\* A submission of the second account on gnosis is pending.
C2_Witness ==
  \E f \in Suspended :
    /\ f.request.method = "writeContract"
    /\ f.address = "0xA2"
    /\ f.publicClient.chainId = 100

\* The invocation made no network call and did not suspend.
NoNetworkCall == flows' = flows

\* C3: an invocation while the wallet is disconnected ends with "Wallet not
\* Connected" visible, no success hash visible and no network call made.
C3_Disconnected ==
  [][(onHandleApprove /\ address = Undefined) =>
       /\ errorMessage' = "Wallet not Connected"
       /\ txHash' = Null
       /\ NoNetworkCall]_vars

\* The message is shown while no account is connected, on a chain with a
\* router and with a token address typed in.
C3_Witness ==
  /\ address = Undefined
  /\ errorMessage = "Wallet not Connected"
  /\ txHash = Null
  /\ uniswapAddress # Undefined
  /\ tokenAddress # ""

\* C4 as stated: an invocation with an empty token address fails with
\* "Token is required" before any network call.
C4_AsStated ==
  [][(onHandleApprove /\ tokenAddress = "") =>
       /\ errorMessage' = "Token is required"
       /\ NoNetworkCall]_vars

\* C4: an invocation with an empty token address makes no network call and
\* fails; the message is "Token is required" when an account is connected
\* and the active chain has a router (the earlier checks come first).
C4_EmptyToken ==
  [][(onHandleApprove /\ tokenAddress = "") =>
       /\ NoNetworkCall
       /\ errorMessage' # Null
       /\ txHash' = Null
       /\ (address # Undefined /\ uniswapAddress # Undefined)
            => errorMessage' = "Token is required"]_vars

\* The message is shown with an account connected and a router resolved.
C4_Witness ==
  /\ tokenAddress = ""
  /\ address # Undefined
  /\ uniswapAddress # Undefined
  /\ errorMessage = "Token is required"
  /\ flows = EmptyBag

\* The active chain has no entry in the router table.
UnsupportedChain == publicClient.chainId \notin {42161, 100, 1313161554}

\* C5 as stated: an invocation on a chain outside the router table fails
\* with "Target contract is required" before any network call.
C5_AsStated ==
  [][(onHandleApprove /\ UnsupportedChain) =>
       /\ errorMessage' = "Target contract is required"
       /\ NoNetworkCall]_vars

\* C5: an invocation on a chain outside the router table (mainnet and
\* sepolia among the configured ones) makes no network call and fails; the
\* message is "Target contract is required" when an account is connected.
C5_UnsupportedChain ==
  [][(onHandleApprove /\ UnsupportedChain) =>
       /\ NoNetworkCall
       /\ errorMessage' # Null
       /\ txHash' = Null
       /\ address # Undefined
            => errorMessage' = "Target contract is required"]_vars

\* The message is shown on sepolia with an account connected and a token
\* address typed in.
C5_Witness ==
  /\ publicClient.chainId = 11155111
  /\ address # Undefined
  /\ tokenAddress # ""
  /\ errorMessage = "Target contract is required"
  /\ flows = EmptyBag

\* The first precondition that fails, in the order account, transport,
\* router, token.
FirstFailed ==
  IF address = Undefined THEN "account"
  ELSE IF ~publicClient.present THEN "transport"
  ELSE IF uniswapAddress = Undefined THEN "router"
  ELSE IF tokenAddress = "" THEN "token"
  ELSE "none"

Shown(e) ==
  /\ errorMessage' = (IF e.isError THEN e.message ELSE "Unknown error")
  /\ txHash' = Null

\* The invocation f is over.
Ended(f) == flows' = flows (-) SetToBag({f})

\* C7 as stated: whichever step of an invocation fails, the invocation ends
\* with no success hash visible and with the failing step's message visible
\* ("Unknown error" when the value thrown is not an Error).
C7_AsStated ==
  [][/\ (onHandleApprove /\ NoNetworkCall) =>
          Shown(Precheck(address, publicClient, uniswapAddress, tokenAddress))
     /\ \A f \in Suspended :
          /\ \A e \in EstimateContractGasErrors :
               EstimateContractGasFails(f, e) => Shown(e)
          /\ \A g \in EstimateContractGasResults(f.params) :
               (EstimateContractGasReturns(f, g) /\ Ended(f)) =>
                 Shown(Err("Wallet client not available"))
          /\ \A e \in EstimateFeesPerGasErrors(f.publicClient.chainId) :
               (EstimateFeesPerGasFails(f, e) /\ Ended(f)) => Shown(e)
          /\ \A e \in GetGasPriceErrors : GetGasPriceFails(f, e) => Shown(e)
          /\ \A e \in WriteContractErrors :
               WriteContractFails(f, e) => Shown(e)]_vars

\* C8 as stated: when an invocation succeeds the visible result is the hash
\* the submission returned and no error message is visible.
C8_AsStated ==
  [][\A f \in Suspended : \A h \in Hashes :
       WriteContractReturns(f, h) =>
         /\ txHash' = h
         /\ errorMessage' = Null]_vars

\* The resolver has returned to the invocation f.
Quoted(f) == f.pc = "writeContract"

Called(f, method) == \E i \in 1..Len(f.calls) : f.calls[i] = method

\* C9 as stated: on a chain with a fee market the resolver returns
\* is1559 = TRUE and a quote of maxFeePerGas and maxPriorityFeePerGas
\* without gasPrice, and never calls getGasPrice.
C9_AsStated ==
  \A f \in Suspended :
    f.publicClient.chainId \in FeeMarketChains =>
      /\ ~Called(f, "getGasPrice")
      /\ Quoted(f) =>
           /\ f.gp.is1559
           /\ DOMAIN f.gp.feesPerGas = {"maxFeePerGas", "maxPriorityFeePerGas"}

\* C10: on a chain without a fee market, whenever the resolver returns, it
\* returns is1559 = FALSE and a quote whose only field is gasPrice, both
\* after a failed fee estimation and after one that resolved without
\* maxFeePerGas.
C10_LegacyQuote ==
  \A f \in Suspended :
    (f.publicClient.chainId \notin FeeMarketChains /\ Quoted(f)) =>
      /\ f.gp.is1559 = FALSE
      /\ DOMAIN f.gp.feesPerGas = {"gasPrice"}
      /\ "gasPrice" \in DOMAIN f.request.args
      /\ "maxFeePerGas" \notin DOMAIN f.request.args

\* On aurora the resolver has returned to two invocations, once after the
\* fallback to getGasPrice and once without it.
C10_Witness ==
  \E f, g \in Suspended :
    /\ f.publicClient.chainId = 1313161554
    /\ g.publicClient.chainId = 1313161554
    /\ Quoted(f) /\ Called(f, "getGasPrice")
    /\ Quoted(g) /\ ~Called(g, "getGasPrice")

\* The value e is an Error whose message contains "1559".
Mentions1559(e) == e.isError /\ Includes1559(e.message)

\* The fields of the pending submission of f are those of a legacy quote.
LegacySubmission(f) ==
  /\ f.request.method = "writeContract"
  /\ "gasPrice" \in DOMAIN f.request.args
  /\ "maxFeePerGas" \notin DOMAIN f.request.args
  /\ "maxPriorityFeePerGas" \notin DOMAIN f.request.args

\* C11 as stated: when the fee estimation of an invocation throws an error
\* whose message contains "1559", the invocation calls getGasPrice, then
\* submits a transaction with gasPrice and without maxFeePerGas and
\* maxPriorityFeePerGas, and, when the submission succeeds, ends with the
\* returned hash visible and no error visible.
C11_AsStated ==
  [][\A f \in Suspended :
       /\ \A e \in EstimateFeesPerGasErrors(f.publicClient.chainId) :
            (Mentions1559(e) /\ EstimateFeesPerGasFails(f, e)) =>
              \E g \in BagToSet(flows') :
                /\ g.request.method = "getGasPrice"
                /\ flows' = (flows (-) SetToBag({f})) (+) SetToBag({g})
       /\ \A p \in GasPrices :
            GetGasPriceReturns(f, p) =>
              \E g \in BagToSet(flows') :
                /\ LegacySubmission(g)
                /\ flows' = (flows (-) SetToBag({f})) (+) SetToBag({g})
       /\ \A h \in Hashes :
            (Called(f, "getGasPrice") /\ WriteContractReturns(f, h)) =>
              /\ txHash' = h
              /\ errorMessage' = Null]_vars

\* C12: when the fee estimation of an invocation fails with an Error whose
\* message does not contain "1559", the invocation ends there with that
\* error's message visible: it has not called getGasPrice and has not
\* submitted a transaction.
C12_Propagated ==
  [][\A f \in Suspended :
       \A e \in EstimateFeesPerGasErrors(f.publicClient.chainId) :
         (e.isError /\ ~Includes1559(e.message)
            /\ EstimateFeesPerGasFails(f, e)) =>
           /\ Ended(f)
           /\ errorMessage' = e.message
           /\ ~Called(f, "getGasPrice")
           /\ ~Called(f, "writeContract")]_vars

\* The transport error of a fee estimation is visible; no other call of the
\* model fails with this message.
C12_Witness ==
  /\ errorMessage = MsgHttp
  /\ flows = EmptyBag

\* The quotes the resolver can return on the chain of f.
QuotesOf(f) ==
  EstimateFeesPerGasResults(f.publicClient.chainId)
    \cup {[gasPrice |-> p] : p \in GasPrices}

\* C13: every submitted transaction is the invocation's own call
\* descriptor (the token as target, approve, the router and the maximum
\* amount as arguments, the owner as account), extended with the fields of
\* the quote the resolver returned to that invocation and with gas set to
\* the limit estimated for that invocation; a fee-market quote brings
\* maxFeePerGas and maxPriorityFeePerGas.
C13_Submission ==
  \A f \in Suspended :
    f.request.method = "writeContract" =>
      LET tx == f.request.args
      IN  /\ DOMAIN tx =
               DOMAIN f.params \cup DOMAIN f.gp.feesPerGas \cup {"gas"}
          /\ tx.address = f.tokenAddress
          /\ tx.functionName = "approve"
          /\ tx.args = << f.uniswapAddress, MaxUint256 >>
          /\ tx.account = f.address
          /\ \A k \in DOMAIN f.params : tx[k] = f.params[k]
          /\ f.gp.feesPerGas \in QuotesOf(f)
          /\ \A k \in DOMAIN f.gp.feesPerGas : tx[k] = f.gp.feesPerGas[k]
          /\ f.gasLimit \in EstimateContractGasResults(f.params)
          /\ tx.gas = f.gasLimit
          /\ f.gp.is1559 =>
               {"maxFeePerGas", "maxPriorityFeePerGas"} \subseteq DOMAIN tx

\* The submissions of two accounts are pending, with their own gas limits
\* and a quote of each kind.
C13_Witness ==
  \E f, g \in Suspended :
    /\ f.request.method = "writeContract"
    /\ g.request.method = "writeContract"
    /\ f.address # g.address
    /\ f.request.args.gas # g.request.args.gas
    /\ f.gp.is1559
    /\ ~g.gp.is1559

\* The orders in which one invocation can have started its calls.
CallOrders ==
  { << "estimateContractGas" >>,
    << "estimateContractGas", "estimateFeesPerGas" >>,
    << "estimateContractGas", "estimateFeesPerGas", "getGasPrice" >>,
    << "estimateContractGas", "estimateFeesPerGas", "writeContract" >>,
    << "estimateContractGas", "estimateFeesPerGas", "getGasPrice",
       "writeContract" >> }

AtMostOnce(calls) ==
  \A i, j \in 1..Len(calls) : calls[i] = calls[j] => i = j

\* C15: nothing is retried: an invocation makes each of its four calls at
\* most once, a failed call ends the invocation (or, for the fee
\* estimation, is followed by the one legacy lookup), and a run starts only
\* in a step of onHandleApprove, one run per invocation.
C15_NoRetry ==
  [][/\ \A g \in BagToSet(flows') : AtMostOnce(g.calls)
     /\ BagCardinality(flows') > BagCardinality(flows) =>
          /\ onHandleApprove
          /\ BagCardinality(flows') = BagCardinality(flows) + 1
     /\ \A f \in Suspended :
          /\ \A e \in EstimateContractGasErrors :
               EstimateContractGasFails(f, e) => Ended(f)
          /\ \A e \in EstimateFeesPerGasErrors(f.publicClient.chainId) :
               EstimateFeesPerGasFails(f, e) =>
                 \/ Ended(f)
                 \/ Resume(f, Await(f, "getGasPrice", << >>))
          /\ \A e \in GetGasPriceErrors : GetGasPriceFails(f, e) => Ended(f)
          /\ \A e \in WriteContractErrors :
               WriteContractFails(f, e) => Ended(f)]_vars

\* The gas estimation of the only invocation failed and nothing is running.
C15_Witness ==
  /\ errorMessage = MsgReverted
  /\ flows = EmptyBag

\* C16 as stated: an invocation that passes the four checks without a
\* wallet client makes the gas-limit estimation its only call and ends with
\* "Wallet client not available" visible.
C16_AsStated ==
  [][\A f \in Suspended :
       ~f.walletClient =>
         /\ f.calls = << "estimateContractGas" >>
         /\ Ended(f) => errorMessage' = "Wallet client not available"]_vars

\* C16: an invocation that passes the four checks without a wallet client
\* starts with the gas-limit estimation and makes no other call: when the
\* estimation resolves the invocation ends with "Wallet client not
\* available" visible, and when it rejects with the rejection's message.
C16_NoWalletClient ==
  [][/\ (onHandleApprove /\ ~NoNetworkCall /\ ~walletClient) =>
          \E g \in BagToSet(flows') :
            /\ ~g.walletClient
            /\ g.request.method = "estimateContractGas"
            /\ flows' = flows (+) SetToBag({g})
     /\ \A f \in Suspended :
          ~f.walletClient =>
            /\ f.calls = << "estimateContractGas" >>
            /\ \A g \in EstimateContractGasResults(f.params) :
                 EstimateContractGasReturns(f, g) =>
                   /\ Ended(f)
                   /\ errorMessage' = "Wallet client not available"
            /\ \A e \in EstimateContractGasErrors :
                 EstimateContractGasFails(f, e) =>
                   /\ Ended(f)
                   /\ errorMessage' = e.message]_vars

\* The message is visible after an invocation made without a wallet client.
C16_Witness ==
  /\ errorMessage = "Wallet client not available"
  /\ flows = EmptyBag

C18_AsStated == ~(txHash # Null /\ errorMessage # Null)

\* The step submits the transaction of the invocation f, which becomes g.
Submits(f, g) ==
  /\ f.pc # "writeContract"
  /\ g.pc = "writeContract"
  /\ flows' = (flows (-) SetToBag({f})) (+) SetToBag({g})

\* C19 as stated: the spender of every submitted transaction is the router
\* of the chain that is active when the transaction is submitted, also when
\* the user has switched chains since the invocation started.
C19_AsStated ==
  [][\A f \in Suspended : \A g \in BagToSet(flows') :
       Submits(f, g) =>
         g.request.args.args[1] = UniswapAddressOf(publicClient)]_vars

\* C20 as stated: the owner account of every submitted transaction is the
\* account that is connected when the transaction is submitted; after an
\* account change or a disconnect during the invocation nothing is
\* submitted for the account read at its start.
C20_AsStated ==
  [][\A f \in Suspended : \A g \in BagToSet(flows') :
       Submits(f, g) => g.request.args.account = address]_vars

====
